---- MODULE Spec2Model ----
(***************************************************************************)
(* Model of src/handler.py: the RunPod serverless handler that resolves a  *)
(* PDF input, runs the DeepSeek-OCR pipeline as a child process, collects  *)
(* the artifacts and removes the temporary input it created.               *)
(*                                                                         *)
(* One handler call is a sequential program; its position is pc[c]:        *)
(*   idle -> resolve -> build -> run -> respond -> collect -> cleanup      *)
(*        -> returned | raised                                             *)
(* The locals of a call are functions over Calls.  The filesystem is the   *)
(* only state shared between calls: fs (input side: user files and the     *)
(* temporary files of mkstemp), dirs (output directories) and outFiles     *)
(* (what the pipeline and make_archive wrote).                             *)
(***************************************************************************)
EXTENDS Integers, Sequences, FiniteSets, TLC

(* ---------------------------- bounds ----------------------------------- *)
\* call slots the host may hold
NumCalls == 2
\* names mkstemp can hand out
MaxTmp == 2
\* bytes of a text file after its bulk
MaxTail == 4

Calls == 1..NumCalls
TmpIds == 1..MaxTmp

(* ---------------------------- values ----------------------------------- *)
\* Python's None, also standing for a key that is absent from the mapping
None == "None"

\* a filesystem path: a file the caller names, or a name mkstemp made
\* (ext is the suffix of the file name; mkstemp is called with suffix ".pdf")
UserPath(n, ext) == [kind |-> "user", n |-> n, ext |-> ext]
TmpPath(n) == [kind |-> "tmp", n |-> n, ext |-> ".pdf"]
NoPath == [kind |-> "none", n |-> 0, ext |-> ""]

\* pdf_path values a job may carry: 1 exists in the container, 2 does not
GoodPdf == UserPath(1, ".pdf")
MissingPdf == UserPath(2, ".pdf")
PdfPaths == {GoodPdf, MissingPdf}
PdfUrls == {"http://example/doc.pdf"}

\* a base64 payload, character by character: "d" a character of the base64
\* alphabet, "=" the pad, "x" any other ASCII character
B64Payloads ==
    { <<"d", "d", "=", "=">>,
      <<"d", "x", "d", "d", "=">>,
      <<"d", "d", "d">>,
      <<"d">> }

Prompts == {"", "describe"}
OutputDirs == {"/work/out"}
DEFAULT_OUTPUT_DIR == "/tmp/runpod-output"
SCRIPT_PATH == "custom_run_dpsk_ocr_pdf.py"

\* a Python dict: a function from the keys present to their values
EmptyDict == [k \in {} |-> None]
Has(dict, key) == key \in DOMAIN dict
Get(dict, key, default) == IF Has(dict, key) THEN dict[key] ELSE default

\* the job inputs: every key is optional
Opt(key, values) == {EmptyDict} \cup {key :> v : v \in values}
JobInputs ==
    { a @@ b @@ e @@ p @@ o :
        a \in Opt("pdf_path", PdfPaths),
        b \in Opt("pdf_url", PdfUrls),
        e \in Opt("pdf_base64", B64Payloads),
        p \in Opt("prompt", Prompts),
        o \in Opt("output_dir", OutputDirs) }

\* what one HTTP GET can come back with: an exception of requests (connection
\* error, timeout), or a final response with a status and a body of len bytes
HttpStatuses == {200, 300, 404, 503}
BodyLens == {0, 3}
HttpResults ==
    {[exc |-> TRUE, status |-> 0, len |-> 0]}
    \cup [exc : {FALSE}, status : HttpStatuses, len : BodyLens]

NoFetch == [exc |-> FALSE, status |-> 0, len |-> 0]

\* exit codes of the child process (negative: killed by a signal)
ExitCodes == {0, 1, -9}

VARIABLES
    pc,             \* position of each call
    job_input,      \* event["input"]
    pdf_path,       \* resolved input path
    cleanup_paths,  \* list of paths to delete at the end
    cleanup_idx,    \* position of the cleanup loop in cleanup_paths
    command,        \* argument vector
    returncode,     \* process.returncode
    response,       \* the response dict: key -> value
    fs,             \* input-side files: path -> length in bytes
    dirs,           \* output directories that exist
    outFiles,       \* files in the output directories: <<dir, name>> -> content
    created,        \* history: temporary files mkstemp made for the call
    attempted,      \* history: path -> outcome of its pass of the cleanup loop
    acted,          \* history: what resolution did (exists, http_get, b64decode)
    fetched,        \* history: what the HTTP GET of the call came back with
    spawned         \* history: the child process of the call was started

vars == <<pc, job_input, pdf_path, cleanup_paths, cleanup_idx, command,
          returncode, response, fs, dirs, outFiles, created, attempted, acted,
          fetched, spawned>>

locals == <<job_input, pdf_path, cleanup_paths, cleanup_idx, command,
            returncode, response>>
history == <<created, attempted, acted, fetched, spawned>>

(* ------------------------- output directory ---------------------------- *)
\* line 123: the name without its ".pdf" suffix (any case), else Path.stem; the
\* names of the model have one suffix, which either branch strips
BaseStem(path) == [kind |-> path.kind, n |-> path.n]
NoStem == [kind |-> "none", n |-> 0]

\* a file of an output directory; the images directory has no stem in its name
OutFile(dir, stem, kind) == [dir |-> dir, stem |-> stem, kind |-> kind]
ImagesDir(dir) == OutFile(dir, NoStem, "images")

\* what the pipeline may write for one input: {stem}.mmd, {stem}_det.mmd,
\* {stem}_layouts.pdf and images/
PipelineKinds == {"mmd", "det", "layouts", "images"}
PipelineFile(dir, stem, kind) ==
    IF kind = "images" THEN ImagesDir(dir) ELSE OutFile(dir, stem, kind)

\* line 135: the inline limit, in bytes
INLINE_LIMIT == 500000

\* The bytes of a file: pad bytes "A" (65) followed by the bytes of tail.
\* The bulk of a large file is pad; what varies is the tail. The byte values
\* of the model: "A", the two bytes of U+00E9 (195, 169), and 255, which no
\* UTF-8 text contains.
Bytes == {65, 195, 169, 255}
BulkLen == INLINE_LIMIT - 2
PadLens == {0, BulkLen}
RECURSIVE SeqsUpTo(_, _)
SeqsUpTo(S, n) ==
    IF n = 0 THEN {<<>>}
    ELSE LET shorter == SeqsUpTo(S, n - 1) IN
         shorter \cup {Append(q, x) : q \in shorter, x \in S}
AllTexts == [pad : PadLens, tail : SeqsUpTo(Bytes, MaxTail)]

\* len(text_bytes)
Size(content) == content.pad + Len(content.tail)

\* the texts the pipeline of Spec writes: at the limit and one byte beyond
\* it, each as UTF-8 and not
TextContents ==
    {[pad |-> BulkLen, tail |-> t] :
        t \in {<<65, 65>>, <<65, 255>>, <<65, 65, 65>>, <<65, 65, 255>>}}
TextSizes == {Size(t) : t \in TextContents}
BinContent == [pad |-> 0, tail |-> <<255, 65, 65>>]
ContentOf(kind, texts) ==
    IF kind = "mmd" THEN texts[1]
    ELSE IF kind = "det" THEN texts[2]
    ELSE BinContent

\* a file as written by the pipeline of call w (0: before any call)
NoCall == 0
WrittenBy(content, w) ==
    [pad |-> content.pad, tail |-> content.tail, by |-> w]

\* the filesystem a call can find: the file of GoodPdf, and possibly a
\* temporary file and the outputs that earlier calls left behind
InitialFs == {GoodPdf :> 3, (GoodPdf :> 3) @@ (TmpPath(1) :> 0)}
StaleOutputs ==
    [f \in {PipelineFile(DEFAULT_OUTPUT_DIR, BaseStem(GoodPdf), k) :
               k \in PipelineKinds}
           \cup {OutFile(DEFAULT_OUTPUT_DIR, BaseStem(GoodPdf), "zip")} |->
        WrittenBy(ContentOf(f.kind, <<[pad |-> BulkLen, tail |-> <<65, 65>>],
                                       [pad |-> BulkLen, tail |-> <<65, 65>>]>>),
                  NoCall)]
InitialOutFiles == {EmptyDict, StaleOutputs}

Init ==
    /\ pc = [c \in Calls |-> "idle"]
    /\ job_input = [c \in Calls |-> EmptyDict]
    /\ pdf_path = [c \in Calls |-> NoPath]
    /\ cleanup_paths = [c \in Calls |-> <<>>]
    /\ cleanup_idx = [c \in Calls |-> 1]
    /\ command = [c \in Calls |-> <<>>]
    /\ returncode = [c \in Calls |-> 0]
    /\ response = [c \in Calls |-> EmptyDict]
    /\ fs \in InitialFs
    /\ outFiles \in InitialOutFiles
    /\ dirs = {f.dir : f \in DOMAIN outFiles}
    /\ created = [c \in Calls |-> {}]
    /\ attempted = [c \in Calls |-> EmptyDict]
    /\ acted = [c \in Calls |-> {}]
    /\ fetched = [c \in Calls |-> NoFetch]
    /\ spawned = [c \in Calls |-> FALSE]

(* ------------------------- handler: entry ------------------------------ *)
\* output_dir = Path(job_input.get("output_dir", DEFAULT_OUTPUT_DIR))
OutputDirOf(inp) == Get(inp, "output_dir", DEFAULT_OUTPUT_DIR)

OutputDir(c) == OutputDirOf(job_input[c])

\* prompt = job_input.get("prompt")
Prompt(c) == Get(job_input[c], "prompt", None)

\* Spec follows one handler call, in any slot, from any of the initial
\* filesystems: no other call has started
Alone(c) == \A d \in Calls \ {c} : pc[d] = "idle"

\* an exception leaves handler: the call ends without a response
Raise(c) == pc' = [pc EXCEPT ![c] = "raised"]

Goto(c, label) == pc' = [pc EXCEPT ![c] = label]

\* lines 174-177: read the input, create the output directory. mkdir raises
\* OSError when it cannot create the directory (mkdirOk = FALSE).
StartJob(c, inputs) ==
    /\ pc[c] = "idle"
    /\ \E inp \in inputs, mkdirOk \in BOOLEAN :
        /\ job_input' = [job_input EXCEPT ![c] = inp]
        /\ IF mkdirOk
           THEN dirs' = dirs \cup {OutputDirOf(inp)} /\ Goto(c, "resolve")
           ELSE dirs' = dirs /\ Raise(c)
    /\ UNCHANGED <<pdf_path, cleanup_paths, cleanup_idx, command, returncode,
                   response, fs, outFiles, history>>

Start(c) == Alone(c) /\ StartJob(c, JobInputs)

(* ------------------------- input resolution ---------------------------- *)
\* Response.raise_for_status(): HTTPError for a 4xx or a 5xx status
RaiseForStatus(status) == 400 <= status /\ status < 600

\* binascii.a2b_base64 (not strict) behind base64.b64decode(encoded): characters
\* outside the alphabet are skipped, a pad closing a quad ends the scan, and
\* data that stops inside a quad is an error. quad is the position in the
\* current quad, pads the pads seen since the last data character, n the
\* bytes written.
RECURSIVE A2bBase64(_, _, _, _, _)
A2bBase64(s, i, quad, pads, n) ==
    IF i > Len(s)
    THEN [ok |-> quad = 0, len |-> n]
    ELSE IF s[i] = "="
         THEN IF quad >= 2 /\ quad + pads + 1 >= 4
              THEN [ok |-> TRUE, len |-> n]
              ELSE A2bBase64(s, i + 1, quad,
                             IF quad >= 2 THEN pads + 1 ELSE pads, n)
         ELSE IF s[i] = "x"
              THEN A2bBase64(s, i + 1, quad, pads, n)
              ELSE A2bBase64(s, i + 1, (quad + 1) % 4, 0,
                             IF quad = 0 THEN n ELSE n + 1)

B64Decode(encoded) == A2bBase64(encoded, 1, 0, 0, 0)

\* a mkstemp that may hand out the name of an existing file
FreeTmp_Any == {TmpPath(t) : t \in TmpIds}

\* tempfile.mkstemp: a name no existing file has
FreeTmp == {TmpPath(t) : t \in TmpIds} \ DOMAIN fs

\* the source keys tested in another order: pdf_url first
SourceKey_UrlFirst(inp) ==
    IF Has(inp, "pdf_url") THEN "pdf_url"
    ELSE IF Has(inp, "pdf_path") THEN "pdf_path"
    ELSE IF Has(inp, "pdf_base64") THEN "pdf_base64"
    ELSE None

\* lines 66, 72, 77: the first source key present, in the order of the ifs
SourceKey(inp) ==
    IF Has(inp, "pdf_path") THEN "pdf_path"
    ELSE IF Has(inp, "pdf_url") THEN "pdf_url"
    ELSE IF Has(inp, "pdf_base64") THEN "pdf_base64"
    ELSE None

\* a cleanup list that forgets the downloaded file
CleanupList_ForgetsUrl(key, path) ==
    IF key = "pdf_base64" THEN <<path>> ELSE <<>>

\* a cleanup list that also takes the caller's own file
CleanupList_TakesPdfPath(key, path) == <<path>>

\* lines 70, 74-75, 79-80: the cleanup list returned beside the path
CleanupList(key, path) ==
    IF key = "pdf_path" THEN <<>> ELSE <<path>>

\* lines 66-70: pdf_path names a file of the container
ResolvePath(c) ==
    /\ SourceKey(job_input[c]) = "pdf_path"
    /\ acted' = [acted EXCEPT ![c] = @ \cup {"exists"}]
    /\ IF job_input[c].pdf_path \in DOMAIN fs
       THEN /\ pdf_path' = [pdf_path EXCEPT ![c] = job_input[c].pdf_path]
            /\ cleanup_paths' = [cleanup_paths EXCEPT ![c] =
                   CleanupList("pdf_path", job_input[c].pdf_path)]
            /\ Goto(c, "build")
       ELSE Raise(c) /\ UNCHANGED <<pdf_path, cleanup_paths>>
    /\ UNCHANGED <<fs, created, fetched>>

\* lines 72-75 with _download_to_file (36-44): GET, raise_for_status, then
\* mkstemp and the write of the body
ResolveUrl(c) ==
    /\ SourceKey(job_input[c]) = "pdf_url"
    /\ acted' = [acted EXCEPT ![c] = @ \cup {"http_get"}]
    /\ \E r \in HttpResults :
        /\ fetched' = [fetched EXCEPT ![c] = r]
        /\ IF r.exc \/ RaiseForStatus(r.status)
           THEN Raise(c) /\ UNCHANGED <<pdf_path, cleanup_paths, fs, created>>
           ELSE \E downloaded \in FreeTmp :
               /\ fs' = (downloaded :> r.len) @@ fs
               /\ created' = [created EXCEPT ![c] = @ \cup {downloaded}]
               /\ pdf_path' = [pdf_path EXCEPT ![c] = downloaded]
               /\ cleanup_paths' = [cleanup_paths EXCEPT ![c] =
                      CleanupList("pdf_url", downloaded)]
               /\ Goto(c, "build")

\* lines 77-80 with _write_base64_file (47-52): mkstemp first, then the decode
\* inside the with block; a decode error leaves the empty file behind
ResolveBase64(c) ==
    /\ SourceKey(job_input[c]) = "pdf_base64"
    /\ acted' = [acted EXCEPT ![c] = @ \cup {"b64decode"}]
    /\ fetched' = fetched
    /\ \E decoded \in FreeTmp :
        /\ created' = [created EXCEPT ![c] = @ \cup {decoded}]
        /\ LET d == B64Decode(job_input[c].pdf_base64) IN
           IF d.ok
           THEN /\ fs' = (decoded :> d.len) @@ fs
                /\ pdf_path' = [pdf_path EXCEPT ![c] = decoded]
                /\ cleanup_paths' = [cleanup_paths EXCEPT ![c] =
                       CleanupList("pdf_base64", decoded)]
                /\ Goto(c, "build")
           ELSE /\ fs' = (decoded :> 0) @@ fs
                /\ Raise(c)
                /\ UNCHANGED <<pdf_path, cleanup_paths>>

\* lines 82-84: no source key
ResolveNone(c) ==
    /\ SourceKey(job_input[c]) = None
    /\ Raise(c)
    /\ UNCHANGED <<pdf_path, cleanup_paths, fs, created, acted, fetched>>

\* line 179: _ensure_pdf_input(job_input)
EnsurePdfInput(c) ==
    /\ pc[c] = "resolve"
    /\ \/ ResolvePath(c)
       \/ ResolveUrl(c)
       \/ ResolveBase64(c)
       \/ ResolveNone(c)
    /\ UNCHANGED <<job_input, cleanup_idx, command, returncode, response,
                   dirs, outFiles, attempted, spawned>>

(* ------------------------- pipeline invocation ------------------------- *)
\* a test `if prompt is not None`, which forwards an empty prompt
PromptArgs_NotNone(prompt) ==
    IF prompt # None THEN <<"--prompt", prompt>> ELSE <<>>

\* lines 97-98: `if prompt:` is false for None and for the empty string
PromptArgs(prompt) ==
    IF prompt # None /\ prompt # "" THEN <<"--prompt", prompt>> ELSE <<>>

\* lines 89-99: _build_command (a path stands for its own str())
BuildArgv(path, output_dir, prompt) ==
    <<"python", SCRIPT_PATH, "--input", path, "--output", output_dir>>
        \o PromptArgs(prompt)

\* a handler that drops its temporary input as soon as the command is built
BuildCommand_DeletesInput(c) ==
    /\ pc[c] = "build"
    /\ command' = [command EXCEPT ![c] =
           BuildArgv(pdf_path[c], OutputDir(c), Prompt(c))]
    /\ fs' = [p \in DOMAIN fs \ created[c] |-> fs[p]]
    /\ Goto(c, "run")
    /\ UNCHANGED <<job_input, pdf_path, cleanup_paths, cleanup_idx, returncode,
                   response, dirs, outFiles, history>>

\* line 180
BuildCommand(c) ==
    /\ pc[c] = "build"
    /\ command' = [command EXCEPT ![c] =
           BuildArgv(pdf_path[c], OutputDir(c), Prompt(c))]
    /\ Goto(c, "run")
    /\ UNCHANGED <<job_input, pdf_path, cleanup_paths, cleanup_idx, returncode,
                   response, fs, dirs, outFiles, history>>

\* lines 102-110 at line 182: subprocess.run(command, check=False). Either the
\* child cannot be started (run raises OSError), or it runs to its end: it is
\* a black box that exits with any code and has written any of its outputs
\* for the --input and --output it was given.
\* runs: the <<exit code, kinds written>> pairs and texts: the <<primary
\* markdown, detection markdown>> contents the child may come up with.
RunChild(c, runs, texts) ==
    /\ pc[c] = "run"
    /\ \/ /\ Raise(c)
          /\ UNCHANGED <<returncode, outFiles, spawned>>
       \/ \E run \in runs, pair \in texts :
          LET rc == run[1]
              written == run[2]
          IN
            /\ returncode' = [returncode EXCEPT ![c] = rc]
            /\ outFiles' =
                 [f \in {PipelineFile(command[c][6], BaseStem(command[c][4]), k) :
                            k \in written} |->
                    WrittenBy(ContentOf(f.kind, pair), c)] @@ outFiles
            /\ spawned' = [spawned EXCEPT ![c] = TRUE]
            /\ Goto(c, "respond")
    /\ UNCHANGED <<job_input, pdf_path, cleanup_paths, cleanup_idx, command,
                   response, fs, dirs, created, attempted, acted, fetched>>

RunPipeline(c) ==
    RunChild(c, ExitCodes \X SUBSET PipelineKinds, {<<t, t>> : t \in TextContents})

(* ------------------------- response assembly --------------------------- *)
\* a test that takes only positive exit codes for failures
PipelineFailed_Positive(rc) == rc > 0

\* line 191: `if process.returncode != 0`
PipelineFailed(rc) == rc # 0

\* lines 191-194
StatusOf(rc) == IF PipelineFailed(rc) THEN "failed" ELSE "succeeded"

\* lines 184-194: the response body and its status; artifacts are collected
\* only on the succeeded branch
BuildResponse(c) ==
    /\ pc[c] = "respond"
    /\ response' = [response EXCEPT ![c] =
           ("command" :> command[c]) @@ ("return_code" :> returncode[c])
           @@ ("stdout" :> "out") @@ ("stderr" :> "err")
           @@ ("status" :> StatusOf(returncode[c]))]
    /\ IF PipelineFailed(returncode[c])
       THEN Goto(c, "cleanup")
       ELSE Goto(c, "collect")
    /\ UNCHANGED <<job_input, pdf_path, cleanup_paths, cleanup_idx, command,
                   returncode, fs, dirs, outFiles, history>>

(* ------------------------- artifact collection ------------------------- *)
\* bytes.decode("utf-8") over the byte values of the model: a byte below 128
\* is its own character, a lead byte 194..223 takes one continuation byte
\* 128..191, and anything else raises UnicodeDecodeError (ok = FALSE)
RECURSIVE Utf8Decode(_, _, _)
Utf8Decode(bytes, i, text) ==
    IF i > Len(bytes) THEN [ok |-> TRUE, text |-> text]
    ELSE IF bytes[i] < 128
         THEN Utf8Decode(bytes, i + 1, Append(text, bytes[i]))
         ELSE IF /\ 194 <= bytes[i] /\ bytes[i] <= 223
                 /\ i < Len(bytes)
                 /\ 128 <= bytes[i + 1] /\ bytes[i + 1] <= 191
              THEN Utf8Decode(bytes, i + 2,
                       Append(text, (bytes[i] - 192) * 64 + (bytes[i + 1] - 128)))
              ELSE [ok |-> FALSE, text |-> <<>>]

\* base64.b64encode: three bytes give four symbols of six bits; a last group
\* of one or two bytes is filled with the pad (symbol 64)
B64Pad == 64
RECURSIVE Base64Encode(_, _)
Base64Encode(bytes, i) ==
    LET left == Len(bytes) - i + 1
        b1 == bytes[i]
        b2 == IF left >= 2 THEN bytes[i + 1] ELSE 0
        b3 == IF left >= 3 THEN bytes[i + 2] ELSE 0
        n == b1 * 65536 + b2 * 256 + b3
    IN IF left <= 0 THEN <<>>
       ELSE <<n \div 262144, (n \div 4096) % 64,
              IF left >= 2 THEN (n \div 64) % 64 ELSE B64Pad,
              IF left >= 3 THEN n % 64 ELSE B64Pad>>
            \o Base64Encode(bytes, i + 3)

\* a Python str made of one unit repeated rep times and then tail; enc names
\* which branch made it and by the writer of the bytes it was made from
\* (neither is part of the str)
TextOf(content) ==
    [enc |-> "text", rep |-> content.pad, unit |-> <<65>>,
     tail |-> Utf8Decode(content.tail, 1, <<>>).text, by |-> content.by]
Base64Of(content) ==
    [enc |-> "base64", rep |-> content.pad \div 3,
     unit |-> Base64Encode(<<65, 65, 65>>, 1),
     tail |-> Base64Encode(content.tail, 1), by |-> content.by]

\* a limit test that sends a file of exactly the limit to base64
WithinLimit_Strict(size) == size < INLINE_LIMIT

\* line 135: `if len(text_bytes) <= 500_000`
WithinLimit(size) == size <= INLINE_LIMIT

\* lines 130-137: None for a missing file; the text for a file within the
\* limit, where decode("utf-8") raises UnicodeDecodeError on bytes that are
\* not UTF-8; base64 text beyond the limit
EncodeTextFile(file) ==
    IF file \notin DOMAIN outFiles THEN [r |-> "none"]
    ELSE IF WithinLimit(Size(outFiles[file]))
         THEN IF Utf8Decode(outFiles[file].tail, 1, <<>>).ok
              THEN [r |-> "ok", value |-> TextOf(outFiles[file])]
              ELSE [r |-> "raise"]
         ELSE [r |-> "ok", value |-> Base64Of(outFiles[file])]

Encoded(e) == e.value

\* a collection that says nothing when the primary markdown is missing
MarkdownFields_Silent(file) ==
    LET e == EncodeTextFile(file) IN
    IF e.r = "ok"
    THEN ("markdown" :> Encoded(e)) @@ ("markdown_path" :> file)
    ELSE EmptyDict

\* lines 139-144
MarkdownFields(file) ==
    LET e == EncodeTextFile(file) IN
    IF e.r = "ok"
    THEN ("markdown" :> Encoded(e)) @@ ("markdown_path" :> file)
    ELSE ("markdown_missing" :> file)

\* lines 146-149
DetectionFields(file) ==
    LET e == EncodeTextFile(file) IN
    IF e.r = "ok"
    THEN ("detection_markdown" :> Encoded(e))
         @@ ("detection_markdown_path" :> file)
    ELSE EmptyDict

\* lines 151-155
LayoutFields(file) ==
    IF file \in DOMAIN outFiles
    THEN ("layout_pdf_path" :> file)
         @@ ("layout_pdf_base64" :> Base64Of(outFiles[file]))
    ELSE EmptyDict

\* lines 157-167: the archive is {stem}_images.zip inside output_dir
ArchiveFile(dir, stem) == OutFile(dir, stem, "zip")

\* an archiving step that removes the directory it has packed
WithArchive_MovesImages(files, dir, stem) ==
    LET packed == (ArchiveFile(dir, stem) :> files[ImagesDir(dir)]) @@ files
    IN [f \in DOMAIN packed \ {ImagesDir(dir)} |-> packed[f]]

\* lines 160-166: shutil.make_archive packs what is under images/ now,
\* whoever wrote it, and replaces an archive of the same name
WithArchive(files, dir, stem) ==
    (ArchiveFile(dir, stem) :> files[ImagesDir(dir)]) @@ files

ImagesFields(dir, stem) ==
    IF ImagesDir(dir) \in DOMAIN outFiles
    THEN ("images_archive_path" :> ArchiveFile(dir, stem))
    ELSE EmptyDict

\* lines 121-169: the artifacts dict
Artifacts(path, dir) ==
    LET stem == BaseStem(path) IN
    MarkdownFields(OutFile(dir, stem, "mmd"))
    @@ DetectionFields(OutFile(dir, stem, "det"))
    @@ LayoutFields(OutFile(dir, stem, "layouts"))
    @@ ImagesFields(dir, stem)

\* an exception leaves _collect_artifacts
CollectRaises(path, dir) ==
    \E k \in {"mmd", "det"} :
        EncodeTextFile(OutFile(dir, BaseStem(path), k)).r = "raise"

\* line 195: response.update(_collect_artifacts(pdf_path, output_dir))
CollectArtifacts(c) ==
    /\ pc[c] = "collect"
    /\ IF CollectRaises(pdf_path[c], OutputDir(c))
       THEN Raise(c) /\ UNCHANGED <<response, outFiles>>
       ELSE /\ response' = [response EXCEPT ![c] =
                   Artifacts(pdf_path[c], OutputDir(c)) @@ @]
            /\ outFiles' =
                   IF ImagesDir(OutputDir(c)) \in DOMAIN outFiles
                   THEN WithArchive(outFiles, OutputDir(c),
                                    BaseStem(pdf_path[c]))
                   ELSE outFiles
            /\ Goto(c, "cleanup")
    /\ UNCHANGED <<job_input, pdf_path, cleanup_paths, cleanup_idx, command,
                   returncode, fs, dirs, history>>

(* ------------------------------ cleanup -------------------------------- *)
\* a cleanup loop without the except clause
CatchesOSError_Missing == FALSE

\* lines 204-206: `except OSError: pass`
CatchesOSError == TRUE

Remove(files, path) == [p \in DOMAIN files \ {path} |-> files[p]]

\* lines 197-206, one pass of the loop. is_file() is false for a path that is
\* gone (a temporary name is never a directory); unlink either removes the
\* file or raises OSError (permission denied, removed in between), which the
\* except clause discards.
CleanupStep(c) ==
    /\ pc[c] = "cleanup"
    /\ cleanup_idx[c] <= Len(cleanup_paths[c])
    /\ LET path == cleanup_paths[c][cleanup_idx[c]] IN
       IF path \in DOMAIN fs
       THEN \/ /\ fs' = Remove(fs, path)
               /\ attempted' = [attempted EXCEPT ![c] = (path :> "deleted") @@ @]
               /\ Goto(c, "cleanup")
            \/ /\ fs' = fs
               /\ attempted' = [attempted EXCEPT ![c] = (path :> "oserror") @@ @]
               /\ IF CatchesOSError THEN Goto(c, "cleanup") ELSE Raise(c)
       ELSE /\ fs' = fs
            /\ attempted' = [attempted EXCEPT ![c] = (path :> "gone") @@ @]
            /\ Goto(c, "cleanup")
    /\ cleanup_idx' = [cleanup_idx EXCEPT ![c] = @ + 1]
    /\ UNCHANGED <<job_input, pdf_path, cleanup_paths, command, returncode,
                   response, dirs, outFiles, created, acted, fetched, spawned>>

\* the temporary directory is shared with the rest of the machine: a file
\* waiting for cleanup may be removed by someone else before the loop
\* reaches it (the case line 199 tests for)
TmpVanishes(c) ==
    /\ pc[c] = "cleanup"
    /\ cleanup_idx[c] <= Len(cleanup_paths[c])
    /\ cleanup_paths[c][cleanup_idx[c]] \in DOMAIN fs
    /\ cleanup_paths[c][cleanup_idx[c]].kind = "tmp"
    /\ fs' = Remove(fs, cleanup_paths[c][cleanup_idx[c]])
    /\ UNCHANGED <<pc, locals, dirs, outFiles, history>>

\* line 208: return response
Return(c) ==
    /\ pc[c] = "cleanup"
    /\ cleanup_idx[c] > Len(cleanup_paths[c])
    /\ Goto(c, "returned")
    /\ UNCHANGED <<locals, fs, dirs, outFiles, history>>

Next ==
    \E c \in Calls :
        \/ Start(c)
        \/ EnsurePdfInput(c)
        \/ BuildCommand(c)
        \/ RunPipeline(c)
        \/ BuildResponse(c)
        \/ CollectArtifacts(c)
        \/ CleanupStep(c)
        \/ TmpVanishes(c)
        \/ Return(c)

Spec == Init /\ [][Next]_vars
(* ------------------------------ claims --------------------------------- *)
Ended(c) == pc[c] \in {"returned", "raised"}
ArtifactFields ==
    {"markdown", "markdown_missing", "markdown_path", "detection_markdown",
     "detection_markdown_path", "layout_pdf_path", "layout_pdf_base64",
     "images_archive_path"}
\* the output files the collection of call c would look at
OutputsOf(c) ==
    {f \in DOMAIN outFiles :
        /\ f.dir = OutputDir(c)
        /\ f.stem \in {BaseStem(pdf_path[c]), NoStem}}

\* C1 (original statement): when a call has ended, every temporary file that
\* resolution put on the cleanup list has had its pass of the cleanup loop,
\* however the steps after resolution went.
C1_CleanupAlwaysAttempted ==
    \A c \in Calls :
        Ended(c) =>
            \A i \in 1..Len(cleanup_paths[c]) :
                cleanup_paths[c][i] \in DOMAIN attempted[c]

\* C2 (original statement): when a call returns a response, no temporary file
\* it created exists.
C2_TempAbsentAtReturn ==
    \A c \in Calls :
        pc[c] = "returned" => created[c] \cap DOMAIN fs = {}

\* C2 (amended): when a call returns a response, every temporary file it
\* created is absent, or its pass of the cleanup loop ended in an OSError
\* that the loop discarded; this holds for status succeeded and failed.
C2_TempAbsentUnlessDeleteFailed ==
    \A c \in Calls :
        pc[c] = "returned" =>
            \A t \in created[c] :
                \/ t \notin DOMAIN fs
                \/ (t \in DOMAIN attempted[c] /\ attempted[c][t] = "oserror")

C2_Witness ==
    \E c \in Calls :
        /\ pc[c] = "returned"
        /\ response[c]["status"] = "failed"
        /\ created[c] # {}
        /\ \A t \in created[c] :
              t \notin DOMAIN fs /\ attempted[c][t] = "deleted"

\* C3: a non-zero exit code never ends the call with an exception: once the
\* response is assembled it has status failed, return_code equal to the exit
\* code and no artifact field. The status is succeeded exactly for exit code
\* 0, and only then does artifact collection run.
C3_NonZeroExitIsFailedResponse ==
    \A c \in Calls :
        /\ (spawned[c] /\ returncode[c] # 0 /\ pc[c] # "respond") =>
              /\ pc[c] \in {"cleanup", "returned"}
              /\ response[c]["status"] = "failed"
              /\ response[c]["return_code"] = returncode[c]
              /\ DOMAIN response[c] \cap ArtifactFields = {}
        /\ Has(response[c], "status") =>
              (response[c]["status"] = "succeeded" <=> returncode[c] = 0)
        /\ (pc[c] = "collect" \/ DOMAIN response[c] \cap ArtifactFields # {})
              => (spawned[c] /\ returncode[c] = 0)

C3_Witness ==
    \E c \in Calls :
        /\ pc[c] = "returned"
        /\ returncode[c] = -9
        /\ response[c]["status"] = "failed"
        /\ \E f \in OutputsOf(c) : f.kind = "mmd"

\* C4 (original statement): a call that ends with an exception has not
\* started the pipeline process.
C4_RaisesOnlyBeforeInvocation ==
    \A c \in Calls : pc[c] = "raised" => ~spawned[c]

\* C5 (original statement): when the GET of a pdf_url input fails (exception,
\* or a status outside 2xx) or the payload of a pdf_base64 input is malformed,
\* the call ends with an exception, starts no pipeline process and leaves no
\* temporary file of its own behind.
ResolutionFailed(c) ==
    \/ /\ "http_get" \in acted[c]
       /\ \/ fetched[c].exc
          \/ ~(200 <= fetched[c].status /\ fetched[c].status < 300)
    \/ /\ "b64decode" \in acted[c]
       /\ ~B64Decode(job_input[c]["pdf_base64"]).ok

C5_FailedResolutionLeavesNothing ==
    \A c \in Calls :
        ResolutionFailed(c) =>
            /\ pc[c] = "raised"
            /\ ~spawned[c]
            /\ created[c] \cap DOMAIN fs = {}

\* C6: when the input has none of the three source keys, or has a pdf_path
\* that does not exist, the call ends with an exception as soon as resolution
\* has run, no pipeline process is started and no temporary file is created.
NoUsableInput(c) ==
    \/ DOMAIN job_input[c] \cap {"pdf_path", "pdf_url", "pdf_base64"} = {}
    \/ (Has(job_input[c], "pdf_path")
           /\ job_input[c]["pdf_path"] \notin DOMAIN fs)

C6_InputErrorBeforeAnything ==
    \A c \in Calls :
        (pc[c] \notin {"idle", "resolve"} /\ NoUsableInput(c)) =>
            /\ pc[c] = "raised"
            /\ ~spawned[c]
            /\ created[c] = {}
            /\ {p \in DOMAIN fs : p.kind = "tmp"}
                  \subseteq {TmpPath(1)}

C6_Witness ==
    \E c \in Calls :
        /\ pc[c] = "raised"
        /\ Has(job_input[c], "pdf_path") /\ Has(job_input[c], "pdf_url")
        /\ job_input[c]["pdf_path"] = MissingPdf
        /\ acted[c] = {"exists"}

\* C7: resolution acts on the highest-priority source key present, in the
\* order pdf_path, pdf_url, pdf_base64, and on no other: no GET and no decode
\* with pdf_path present (existing or not), no decode with pdf_url present;
\* at most one temporary file is created per call.
C7_OnlyHighestPrioritySource ==
    \A c \in Calls :
        /\ Has(job_input[c], "pdf_path") => acted[c] \subseteq {"exists"}
        /\ (~Has(job_input[c], "pdf_path") /\ Has(job_input[c], "pdf_url"))
              => acted[c] \subseteq {"http_get"}
        /\ (DOMAIN job_input[c] \cap {"pdf_path", "pdf_url"} = {})
              => acted[c] \subseteq {"b64decode"}
        /\ pdf_path[c] # NoPath => Cardinality(acted[c]) = 1
        /\ Cardinality(created[c]) <= 1
        /\ Has(job_input[c], "pdf_path") => created[c] = {}

C7_Witness ==
    \E c \in Calls :
        /\ pc[c] = "returned"
        /\ {"pdf_path", "pdf_url", "pdf_base64"} \subseteq DOMAIN job_input[c]
        /\ acted[c] = {"exists"}
        /\ pdf_path[c] = job_input[c]["pdf_path"]

\* C8: no step changes a file that a call resolved from pdf_path: it exists
\* after the step with the content it had before, whatever the exit code.
C8_PdfPathNeverTouched ==
    [][\A c \in Calls :
          (Has(job_input[c], "pdf_path") /\ pdf_path[c] = job_input[c]["pdf_path"])
              => /\ pdf_path[c] \in DOMAIN fs'
                 /\ fs'[pdf_path[c]] = fs[pdf_path[c]]]_vars

C8_Witness ==
    \E c \in Calls :
        /\ pc[c] = "returned"
        /\ pdf_path[c] = GoodPdf
        /\ returncode[c] # 0
        /\ GoodPdf \in DOMAIN fs
        /\ cleanup_idx[c] > Len(cleanup_paths[c])

\* C9: no pass of the cleanup loop ends the call with an exception or changes
\* the response, whatever the delete does (removes the file, raises OSError,
\* finds the path already gone).
C9_CleanupNeverRaisesNorChangesResponse ==
    [][\A c \in Calls :
          pc[c] = "cleanup" =>
              /\ pc'[c] \in {"cleanup", "returned"}
              /\ response'[c] = response[c]]_vars

C9_Witness ==
    \E c \in Calls :
        /\ pc[c] = "returned"
        /\ \E t \in DOMAIN attempted[c] : attempted[c][t] = "oserror"
        /\ Has(response[c], "status")

\* C10: the argument vector of every invocation is the interpreter, the
\* script, --input with the resolved path, --output with the output
\* directory, and then --prompt with the prompt text exactly when the input
\* carries a non-empty prompt; an absent or empty prompt adds nothing.
PromptSupplied(c) ==
    Has(job_input[c], "prompt") /\ job_input[c]["prompt"] # ""

C10_ArgvShape ==
    \A c \in Calls :
        pc[c] \in {"run", "respond", "collect", "cleanup", "returned"} =>
            /\ Len(command[c]) >= 6
            /\ command[c][3] = "--input" /\ command[c][4] = pdf_path[c]
            /\ command[c][5] = "--output"
            /\ command[c][6] = Get(job_input[c], "output_dir", DEFAULT_OUTPUT_DIR)
            /\ IF PromptSupplied(c)
               THEN /\ Len(command[c]) = 8
                    /\ command[c][7] = "--prompt"
                    /\ command[c][8] = job_input[c]["prompt"]
               ELSE Len(command[c]) = 6

C10_Witness ==
    \E c \in Calls :
        /\ spawned[c]
        /\ Has(job_input[c], "prompt") /\ job_input[c]["prompt"] = ""
        /\ Len(command[c]) = 6
\* the artifact locations of call c (lines 125-128)
MmdOf(c) == OutFile(OutputDir(c), BaseStem(pdf_path[c]), "mmd")
DetOf(c) == OutFile(OutputDir(c), BaseStem(pdf_path[c]), "det")
LayoutsOf(c) == OutFile(OutputDir(c), BaseStem(pdf_path[c]), "layouts")
Succeeded(c) ==
    /\ pc[c] \in {"cleanup", "returned"}
    /\ response[c]["status"] = "succeeded"

\* C11: a response with status succeeded has exactly one of markdown and
\* markdown_missing: markdown with markdown_path when {stem}.mmd exists in
\* output_dir, markdown_missing without markdown when it does not. A missing
\* detection markdown, layout document or images directory adds no field,
\* and a collection that raises has found a text file, not missed one.
C11_MarkdownOrMissing ==
    \A c \in Calls :
        /\ Succeeded(c) =>
              /\ Has(response[c], "markdown") # Has(response[c], "markdown_missing")
              /\ Has(response[c], "markdown") <=> MmdOf(c) \in DOMAIN outFiles
              /\ Has(response[c], "markdown") <=> Has(response[c], "markdown_path")
              /\ Has(response[c], "markdown") => response[c]["markdown_path"] = MmdOf(c)
              /\ Has(response[c], "markdown_missing")
                    => response[c]["markdown_missing"] = MmdOf(c)
              /\ DetOf(c) \notin DOMAIN outFiles =>
                    DOMAIN response[c]
                       \cap {"detection_markdown", "detection_markdown_path"} = {}
              /\ LayoutsOf(c) \notin DOMAIN outFiles =>
                    DOMAIN response[c]
                       \cap {"layout_pdf_path", "layout_pdf_base64"} = {}
              /\ ImagesDir(OutputDir(c)) \notin DOMAIN outFiles =>
                    ~Has(response[c], "images_archive_path")
        /\ (pc[c] = "raised" /\ Has(response[c], "status")) =>
              (MmdOf(c) \in DOMAIN outFiles \/ DetOf(c) \in DOMAIN outFiles)

C11_Witness ==
    \E c \in Calls :
        /\ pc[c] = "returned"
        /\ response[c]["status"] = "succeeded"
        /\ DOMAIN response[c] \cap ArtifactFields = {"markdown_missing"}
        /\ OutputsOf(c) = {}
(* ---------------- one call, every content of a text file --------------- *)
\* SpecEncode follows one call whose input names one source and nothing
\* else; its pipeline leaves text files of every content of AllTexts
EncodeInputs ==
    {EmptyDict}
    \cup {"pdf_path" :> p : p \in PdfPaths}
    \cup {"pdf_url" :> u : u \in PdfUrls}
    \cup {"pdf_base64" :> <<"d", "d", "=", "=">>}
OverLimitText == [pad |-> BulkLen, tail |-> <<65, 65, 65>>]
EncodeTexts ==
    {<<t, OverLimitText>> : t \in AllTexts}
    \cup {<<OverLimitText, d>> : d \in AllTexts}
StartEncode(c) == Alone(c) /\ StartJob(c, EncodeInputs)
RunEncode(c) ==
    RunChild(c, {<<0, {"mmd", "det"}>>, <<0, {"det"}>>, <<1, {}>>}, EncodeTexts)

NextEncode ==
    \E c \in Calls :
        \/ StartEncode(c)
        \/ EnsurePdfInput(c)
        \/ BuildCommand(c)
        \/ RunEncode(c)
        \/ BuildResponse(c)
        \/ CollectArtifacts(c)
        \/ CleanupStep(c)
        \/ Return(c)

SpecEncode == Init /\ [][NextEncode]_vars

\* str.encode("utf-8") of code points below 2048
RECURSIVE Utf8Encode(_)
Utf8Encode(text) ==
    IF text = <<>> THEN <<>>
    ELSE (IF Head(text) < 128 THEN <<Head(text)>>
          ELSE <<192 + (Head(text) \div 64), 128 + (Head(text) % 64)>>)
         \o Utf8Encode(Tail(text))

\* base64.b64decode of well-formed base64 text: four symbols give three
\* bytes, one byte less for each pad
RECURSIVE Base64Decode(_)
Base64Decode(symbols) ==
    IF Len(symbols) < 4 THEN <<>>
    ELSE LET s1 == symbols[1]
             s2 == symbols[2]
             s3 == IF symbols[3] = B64Pad THEN 0 ELSE symbols[3]
             s4 == IF symbols[4] = B64Pad THEN 0 ELSE symbols[4]
             n == s1 * 262144 + s2 * 4096 + s3 * 64 + s4
             three == <<n \div 65536, (n \div 256) % 256, n % 256>>
             kept == IF symbols[3] = B64Pad THEN 1
                     ELSE IF symbols[4] = B64Pad THEN 2 ELSE 3
         IN SubSeq(three, 1, kept) \o Base64Decode(SubSeq(symbols, 5, Len(symbols)))

\* the bytes a returned str stands for: its unit rep times, then its tail
IsTextOf(value, content) ==
    /\ value.enc = "text"
    /\ value.rep = content.pad
    /\ Utf8Encode(value.unit) = <<65>>
    /\ Utf8Encode(value.tail) = content.tail
IsBase64Of(value, content) ==
    /\ value.enc = "base64"
    /\ value.rep * 3 = content.pad
    /\ Base64Decode(value.unit) = <<65, 65, 65>>
    /\ Base64Decode(value.tail) = content.tail
    /\ \A i \in 1..Len(value.tail) : value.tail[i] \in 0..B64Pad
RoundTrips(value, content) ==
    IF Size(content) <= 500000
    THEN IsTextOf(value, content)
    ELSE IsBase64Of(value, content)

\* C12: in a succeeded response, the markdown field made from a {stem}.mmd of
\* N bytes is the file's text itself when N <= 500,000 (N = 500,000 included):
\* encoding it as UTF-8 gives the file's bytes back; when N > 500,000 it is
\* base64 text that decodes to the file's bytes. The detection markdown field
\* follows the same policy.
C12_InlineOrBase64RoundTrip ==
    \A c \in Calls :
        Succeeded(c) =>
            /\ Has(response[c], "markdown") =>
                  RoundTrips(response[c]["markdown"], outFiles[MmdOf(c)])
            /\ Has(response[c], "detection_markdown") =>
                  RoundTrips(response[c]["detection_markdown"], outFiles[DetOf(c)])

\* a primary markdown of exactly 500,000 bytes ending in a two-byte character
\* returned as text, next to a detection markdown of 500,001 bytes returned
\* as base64
C12_Witness ==
    \E c \in Calls :
        /\ pc[c] = "returned"
        /\ response[c]["status"] = "succeeded"
        /\ Has(response[c], "markdown")
        /\ Has(response[c], "detection_markdown")
        /\ outFiles[MmdOf(c)] = [pad |-> BulkLen, tail |-> <<195, 169>>, by |-> c]
        /\ Size(outFiles[MmdOf(c)]) = 500000
        /\ response[c]["markdown"].enc = "text"
        /\ response[c]["markdown"].tail = <<233>>
        /\ Size(outFiles[DetOf(c)]) = 500001
        /\ outFiles[DetOf(c)].by = c
        /\ response[c]["detection_markdown"].enc = "base64"
\* C13: no step of handler removes a directory it has created or found, or a
\* file of an output directory: output_dir, the pipeline's artifacts and the
\* images archive are all still there after the call, whether it succeeded,
\* failed or raised.
C13_OutputsOutliveTheCall ==
    [][/\ dirs \subseteq dirs'
       /\ DOMAIN outFiles \subseteq DOMAIN outFiles']_vars

\* a call that has archived the images directory, has deleted its temporary
\* input and has returned, with all of its outputs in place
C13_Witness ==
    \E c \in Calls :
        /\ pc[c] = "returned"
        /\ Has(response[c], "images_archive_path")
        /\ response[c]["images_archive_path"] \in DOMAIN outFiles
        /\ ImagesDir(OutputDir(c)) \in DOMAIN outFiles
        /\ {MmdOf(c), DetOf(c), LayoutsOf(c)} \subseteq DOMAIN outFiles
        /\ OutputDir(c) \in dirs
        /\ \E p \in created[c] : p \notin DOMAIN fs

\* C15: the temporary input file of a call is on the filesystem from its
\* creation until the call reaches its cleanup loop, so while the pipeline
\* runs and while artifacts are collected; the call attempts a deletion only
\* once the pipeline has ended and the response has its status.
C15_InputKeptUntilCleanup ==
    \A c \in Calls :
        /\ pc[c] \in {"build", "run", "respond", "collect"} =>
              created[c] \subseteq DOMAIN fs
        /\ DOMAIN attempted[c] # {} =>
              /\ spawned[c]
              /\ Has(response[c], "status")
              /\ pc[c] \in {"cleanup", "returned"}

C15_Witness ==
    \E c \in Calls :
        /\ pc[c] = "collect"
        /\ created[c] # {}
        /\ created[c] \subseteq DOMAIN fs
        /\ spawned[c]
        /\ MmdOf(c) \in DOMAIN outFiles
        /\ outFiles[MmdOf(c)].by = c
(* ------------------------- concurrent calls ---------------------------- *)
\* SpecConc lets the host run the calls side by side, every step of one call
\* interleaved with the steps of the others, all with the default output_dir.
\* An input is the existing pdf_path or a valid pdf_base64 (a temporary file,
\* so a stem of its own); the pipeline exits 0 with the primary markdown and
\* possibly images/, or fails. Nothing but the calls touches the temp
\* directory.
ConcInputs ==
    {"pdf_path" :> GoodPdf, "pdf_base64" :> <<"d", "d", "=", "=">>}
ConcRuns == {<<0, {"mmd"}>>, <<0, {"mmd", "images"}>>, <<1, {}>>}
ConcTexts == {<<OverLimitText, OverLimitText>>}
StartConc(c) == StartJob(c, ConcInputs)
RunConc(c) == RunChild(c, ConcRuns, ConcTexts)

NextConc ==
    \E c \in Calls :
        \/ StartConc(c)
        \/ EnsurePdfInput(c)
        \/ BuildCommand(c)
        \/ RunConc(c)
        \/ BuildResponse(c)
        \/ CollectArtifacts(c)
        \/ CleanupStep(c)
        \/ Return(c)

SpecConc == Init /\ [][NextConc]_vars

InFlight(c) == pc[c] \notin {"idle", "returned", "raised"}
StemOf(c) == BaseStem(pdf_path[c])

\* C14: of two calls in flight at the same time with the same output_dir and
\* distinct stems, neither has in its response content that the other one's
\* pipeline run produced: the images archive a call reports holds what its
\* own run wrote, and so do its markdown fields.
C14_NoContentOfTheOtherCall ==
    \A c \in Calls : \A d \in Calls \ {c} :
        (/\ pc[c] = "cleanup"
         /\ InFlight(d)
         /\ pdf_path[d] # NoPath
         /\ OutputDir(c) = OutputDir(d)
         /\ StemOf(c) # StemOf(d)
         /\ response[c]["status"] = "succeeded")
        => /\ Has(response[c], "images_archive_path") =>
                 outFiles[response[c]["images_archive_path"]].by # d
           /\ Has(response[c], "markdown") => response[c]["markdown"].by # d
           /\ Has(response[c], "detection_markdown") =>
                 response[c]["detection_markdown"].by # d

\* C16: under any interleaving of concurrent calls, a call's cleanup visits
\* only temporary files this call created, and the temporary input of a call
\* in flight is never deleted by another call: it is on the filesystem until
\* its own call's cleanup loop reaches it.
C16_CleanupDeletesOwnFilesOnly ==
    \A c \in Calls :
        /\ DOMAIN attempted[c] \subseteq created[c]
        /\ \A p \in DOMAIN attempted[c] : attempted[c][p] # "gone"
        /\ pc[c] \in {"build", "run", "respond", "collect"} =>
              created[c] \subseteq DOMAIN fs
        /\ pc[c] = "cleanup" =>
              \A i \in cleanup_idx[c]..Len(cleanup_paths[c]) :
                  cleanup_paths[c][i] \in DOMAIN fs

\* one call has deleted its temporary file while another call, with a
\* temporary file of its own, is still in flight
C16_Witness ==
    \E c \in Calls : \E d \in Calls \ {c} :
        /\ pc[c] \in {"cleanup", "returned"}
        /\ \E p \in created[c] : p \notin DOMAIN fs /\ attempted[c][p] = "deleted"
        /\ pc[d] \in {"run", "respond", "collect"}
        /\ created[d] # {}
        /\ created[d] \cap created[c] = {}
        /\ created[d] \subseteq DOMAIN fs
(* ------------------------- calls in sequence --------------------------- *)
\* SpecSeq runs the calls one after the other, all with the default
\* output_dir: a call starts when no other call is in flight. The pipeline
\* keeps to its contract: on exit 0 it has written the primary markdown and
\* any of the optional outputs.
SeqInputs ==
    {"pdf_path" :> GoodPdf, "pdf_base64" :> <<"d", "d", "=", "=">>}
SeqRuns ==
    {<<0, {"mmd"} \cup optional>> : optional \in SUBSET {"det", "layouts", "images"}}
    \cup {<<1, {}>>}
StartSeq(c) ==
    /\ \A d \in Calls \ {c} : ~InFlight(d)
    /\ StartJob(c, SeqInputs)
RunSeq(c) == RunChild(c, SeqRuns, ConcTexts)

NextSeq ==
    \E c \in Calls :
        \/ StartSeq(c)
        \/ EnsurePdfInput(c)
        \/ BuildCommand(c)
        \/ RunSeq(c)
        \/ BuildResponse(c)
        \/ CollectArtifacts(c)
        \/ CleanupStep(c)
        \/ Return(c)

SpecSeq == Init /\ [][NextSeq]_vars

\* C17: in a succeeded response, every optional artifact field comes from a
\* file that this call's own pipeline run wrote: detection_markdown,
\* layout_pdf_base64 and the archive at images_archive_path hold nothing that
\* an earlier call left in the output directory.
C17_OptionalFieldsAreOwn ==
    \A c \in Calls :
        (pc[c] = "cleanup" /\ response[c]["status"] = "succeeded") =>
            /\ Has(response[c], "detection_markdown") =>
                  response[c]["detection_markdown"].by = c
            /\ Has(response[c], "layout_pdf_base64") =>
                  response[c]["layout_pdf_base64"].by = c
            /\ Has(response[c], "images_archive_path") =>
                  outFiles[response[c]["images_archive_path"]].by = c
====
